---- MODULE Spec2Model ----
(***************************************************************************)
(* A model of the SAML authentication gateway of src/app.py: the Flask     *)
(* handlers status, login_redirect, login, logout and healthz, the signed  *)
(* cookie session they read and write, and the clock that ages the cookie. *)
(*                                                                         *)
(* Strings the code takes apart (return paths, rd values, query strings)   *)
(* are sequences of one-character strings; strings it only compares or     *)
(* copies (user ids, group names, header values) are TLA+ strings.         *)
(***************************************************************************)
EXTENDS Integers, Sequences, FiniteSets, TLC

VARIABLES
    now,      \* the server clock, in hours
    cookie,   \* the client's _saml_session cookie: the signed token, if any
    req,      \* the request in flight, or else the one handled last
    opened,   \* the session object of that request, as opened from the cookie
    session,  \* the same, as the handler left it
    resp,     \* the response to it
    log,      \* the records app.logger wrote while handling it
    kept      \* a copy of a token the client kept, or that a request in flight holds

vars == <<now, cookie, req, opened, session, resp, log, kept>>

\* ------------------------------------------------------------ bounds

\* The clock advances TickHours at a time, at most MaxTicks times.
MaxTicks == 3
TickHours == 6
\* The longest rd value, return path and query string of SpecRedirect.
MaxStrLen == 3

\* ------------------------------------------------------------ Python values

None == "None"
PyTrue == "True"
PyFalse == "False"

\* bool(v) of a str or None
Truthy(v) == v # None /\ v # "" /\ v # PyFalse

\* mutant of str_lower: str(v), not lowered
str_lower_kept(v) == v

\* str(v).lower() of a bool or None (src/app.py:83)
str_lower(v) ==
    CASE v = PyTrue -> "true"
      [] v = PyFalse -> "false"
      [] v = None -> "none"
      [] OTHER -> v

\* a dict: a function from the keys it holds
EmptyDict == [k \in {} |-> None]
dict_get(d, k, default) == IF k \in DOMAIN d THEN d[k] ELSE default
dict_set(d, k, v) == [x \in DOMAIN d \cup {k} |-> IF x = k THEN v ELSE d[x]]

Range(s) == {s[i] : i \in DOMAIN s}

RECURSIVE join(_, _)
\* sep.join(list) for a list of strings, as the list of its pieces
join(sep, list) ==
    IF list = <<>> THEN <<>>
    ELSE IF Len(list) = 1 THEN <<list[1]>>
    ELSE <<list[1], sep>> \o join(sep, Tail(list))

\* ------------------------------------------------------------ strings as character sequences

\* s.find(c): the first index of c in s, 0 when there is none
Find(s, c) ==
    IF \E i \in DOMAIN s : s[i] = c
    THEN CHOOSE i \in DOMAIN s : s[i] = c /\ \A j \in 1..(i - 1) : s[j] # c
    ELSE 0

\* the first index >= from of a character of cs, Len(s) + 1 when there is none
FindAny(s, cs, from) ==
    IF \E i \in from..Len(s) : s[i] \in cs
    THEN CHOOSE i \in from..Len(s) : s[i] \in cs /\ \A j \in from..(i - 1) : s[j] \notin cs
    ELSE Len(s) + 1

\* s.rfind(c): the last index of c in s, 0 when there is none
RFind(s, c) ==
    IF \E i \in DOMAIN s : s[i] = c
    THEN CHOOSE i \in DOMAIN s : s[i] = c /\ \A j \in (i + 1)..Len(s) : s[j] # c
    ELSE 0

Before(s, i) == SubSeq(s, 1, i - 1)
After(s, i) == SubSeq(s, i + 1, Len(s))
From(s, i) == SubSeq(s, i, Len(s))

startswith(s, p) == Len(s) >= Len(p) /\ SubSeq(s, 1, Len(p)) = p

Letters == {"a", "e", "h"}
\* urllib.parse.scheme_chars, within the alphabet of the model
scheme_chars == Letters \cup {"+", "-", "."}
\* urllib.parse.uses_params, within the alphabet of the model
uses_params == {<<>>, <<"h">>}

\* urllib.parse._splitparams
splitparams(url) ==
    LET slash == RFind(url, "/")
        semi == IF \E i \in (slash + 1)..Len(url) : url[i] = ";"
                THEN FindAny(url, {";"}, slash + 1) ELSE 0
    IN IF semi = 0 THEN [url |-> url, params |-> <<>>]
       ELSE [url |-> Before(url, semi), params |-> After(url, semi)]

\* urllib.parse.urlsplit, step by step: each step cuts one component off the
\* rest of the url

\* the scheme: the characters before the first ':' when they are scheme characters
\* that begin with a letter
split_scheme(url) ==
    LET colon == Find(url, ":")
    IN IF colon > 1 /\ url[1] \in Letters /\ \A i \in 1..(colon - 1) : url[i] \in scheme_chars
       THEN [cut |-> Before(url, colon), rest |-> After(url, colon)]
       ELSE [cut |-> <<>>, rest |-> url]

\* the netloc: after a leading '//', up to the next '/', '?' or '#'
split_netloc(url) ==
    IF startswith(url, <<"/", "/">>)
    THEN [cut |-> SubSeq(url, 3, FindAny(url, {"/", "?", "#"}, 3) - 1),
          rest |-> From(url, FindAny(url, {"/", "?", "#"}, 3))]
    ELSE [cut |-> <<>>, rest |-> url]

\* url.split(c, 1) when c is in url: what follows the first c is cut off
split_at(url, c) ==
    IF Find(url, c) > 0
    THEN [cut |-> After(url, Find(url, c)), rest |-> Before(url, Find(url, c))]
    ELSE [cut |-> <<>>, rest |-> url]

\* the params of urlparse: only for a scheme of uses_params
split_params(scheme, url) ==
    IF scheme \in uses_params /\ Find(url, ";") > 0
    THEN splitparams(url) ELSE [url |-> url, params |-> <<>>]

urlparse_params(scheme, netloc, fragment, query, sp) ==
    [scheme |-> scheme, netloc |-> netloc, path |-> sp.url,
     params |-> sp.params, query |-> query, fragment |-> fragment]
urlparse_query(scheme, netloc, fragment, q) ==
    urlparse_params(scheme, netloc, fragment, q.cut, split_params(scheme, q.rest))
urlparse_fragment(scheme, netloc, f) ==
    urlparse_query(scheme, netloc, f.cut, split_at(f.rest, "?"))
urlparse_netloc(scheme, n) ==
    urlparse_fragment(scheme, n.cut, split_at(n.rest, "#"))
urlparse_scheme(s) ==
    urlparse_netloc(s.cut, split_netloc(s.rest))

\* urllib.parse.urlparse, as used at src/app.py:137: the scheme, then the
\* netloc after '//', then the fragment after '#', the query after '?' and the
\* params after ';'; what is left is the path
urlparse(url) == urlparse_scheme(split_scheme(url))

\* urllib.parse.urlunsplit's netloc step
unsplit_netloc(p, url) ==
    IF p.netloc # <<>> \/ (p.scheme # <<>> /\ ~startswith(url, <<"/", "/">>))
    THEN <<"/", "/">> \o p.netloc
         \o (IF url # <<>> /\ url[1] # "/" THEN <<"/">> ELSE <<>>) \o url
    ELSE url

\* urllib.parse.urlunparse
urlunparse(p) ==
    (IF p.scheme # <<>> THEN p.scheme \o <<":">> ELSE <<>>)
    \o unsplit_netloc(p, IF p.params # <<>> THEN p.path \o <<";">> \o p.params ELSE p.path)
    \o (IF p.query # <<>> THEN <<"?">> \o p.query ELSE <<>>)
    \o (IF p.fragment # <<>> THEN <<"#">> \o p.fragment ELSE <<>>)

\* urljoin's resolution of the parsed url u against the parsed base b
urljoin_parts(b, u, url) ==
    IF u.scheme # <<>> /\ u.scheme # b.scheme THEN url
    ELSE IF u.netloc # <<>> THEN urlunparse([u EXCEPT !.scheme = b.scheme])
    ELSE IF u.path = <<>> /\ u.params = <<>>
         THEN urlunparse([u EXCEPT !.scheme = b.scheme, !.netloc = b.netloc,
                                   !.path = b.path, !.params = b.params,
                                   !.query = IF u.query = <<>> THEN b.query ELSE u.query])
    ELSE urlunparse([u EXCEPT !.scheme = b.scheme, !.netloc = b.netloc,
                              !.path = IF u.path # <<>> /\ u.path[1] = "/" THEN u.path
                                       ELSE <<"/">> \o u.path])

\* urllib.parse.urljoin(base, url) for a base whose path is '/' (request.url_root):
\* a url with another scheme or with a host of its own is returned on that
\* scheme or host; a path is resolved on the base's origin.  The alphabet of
\* the model has no '.', so no dot segment arises.
urljoin(base, url) ==
    IF url = <<>> THEN base ELSE urljoin_parts(urlparse(base), urlparse(url), url)

\* ------------------------------------------------------------ the cookie session

\* PERMANENT_SESSION_LIFETIME=timedelta(hours=12)
PERMANENT_SESSION_LIFETIME == 12

NoCookie == [present |-> FALSE, data |-> EmptyDict, ts |-> 0]

\* mutant of unexpired: no lifetime is enforced
unexpired_always(ts, t) == TRUE

\* The token is unexpired at most PERMANENT_SESSION_LIFETIME after it was signed.
unexpired(ts, t) == t - ts <= PERMANENT_SESSION_LIFETIME

\* Flask's open_session under the configuration of src/app.py:46-51: the
\* session a request sees is the cookie's payload while the token's signing
\* time is at most the lifetime ago, and the empty session otherwise.
open_session(c, t) ==
    IF c.present /\ unexpired(c.ts, t) THEN c.data ELSE EmptyDict

\* mutant of save_session: the cookie is signed anew on every request, as for
\* a permanent session
save_session_refresh(c, sess, modified, t) ==
    IF sess = EmptyDict THEN (IF modified THEN NoCookie ELSE c)
    ELSE [present |-> TRUE, data |-> sess, ts |-> t]

\* Flask's save_session: a handler that wrote to the session replaces the
\* cookie (deletes it when the session is empty); one that only read it sends
\* no cookie, as the session is not marked permanent.
save_session(c, sess, modified, t) ==
    IF ~modified THEN c
    ELSE IF sess = EmptyDict THEN NoCookie
    ELSE [present |-> TRUE, data |-> sess, ts |-> t]

\* mutant of session_clear: nothing is cleared
session_clear_kept(sess) == sess

\* session.clear()
session_clear(sess) == EmptyDict

\* The session the client's next request would see.
Session == open_session(cookie, now)

\* ------------------------------------------------------------ requests and responses

NoForm == [valid |-> FALSE, attributes |-> EmptyDict, fields |-> EmptyDict]

Request(kind, method, route, path) ==
    [kind |-> kind, method |-> method, route |-> route, path |-> path,
     group |-> None, return_to |-> <<>>, query_string |-> <<>>, args |-> EmptyDict,
     json |-> FALSE, headers |-> EmptyDict, form |-> NoForm]

NoRequest == Request("none", "GET", "", <<>>)

NoRedirect ==
    [to |-> "none", location |-> <<>>, return_to |-> <<>>, two_factor |-> FALSE,
     args |-> EmptyDict]
NoBody == [kind |-> "none", user |-> None, groups |-> <<>>, two_factor |-> None, text |-> ""]

Response(code, headers, body) ==
    [code |-> code, headers |-> headers, body |-> body, redirect |-> NoRedirect]

NoResponse == Response(0, EmptyDict, NoBody)

\* the value of a response header, <<None>> when the response has no such header
header(r, name) == dict_get(r.headers, name, <<None>>)

\* request.url_root: this service's own origin, 'h://e/'
url_root == <<"h", ":", "/", "/", "e", "/">>

\* wants_json(request)
wants_json(r) == r.json

\* error_handler(e) for Unauthorized and Forbidden
error_handler(code, name, r) ==
    Response(code, EmptyDict,
             [NoBody EXCEPT !.kind = IF wants_json(r) THEN "json" ELSE "html", !.text = name])

Unauthorized(r) == error_handler(401, "Unauthorized", r)
Forbidden(r) == error_handler(403, "Forbidden", r)
\* an exception no handler is registered for
InternalServerError == Response(500, EmptyDict, [NoBody EXCEPT !.kind = "html", !.text = "Internal Server Error"])

\* ------------------------------------------------------------ status (src/app.py:58-96)

\* wants_2fa = '2fa' in request.path.split('/')
wants_2fa(r) == "2fa" \in Range(r.path)

\* mutants of is_unauthorized: the user id is not looked at; the second factor is not
is_unauthorized_no_userid(userid, wants, has_2fa) == wants /\ ~Truthy(has_2fa)
is_unauthorized_no_2fa(userid, wants, has_2fa) == ~Truthy(userid)

\* if not userid or (wants_2fa and not has_2fa): raise Unauthorized
is_unauthorized(userid, wants, has_2fa) ==
    ~Truthy(userid) \/ (wants /\ ~Truthy(has_2fa))

\* mutant of is_forbidden: only a user without any group is refused
is_forbidden_no_groups(group, groups) == Truthy(group) /\ groups = <<>>

\* if group and group not in groups: raise Forbidden
is_forbidden(group, groups) ==
    Truthy(group) /\ group \notin Range(groups)

\* the headers of the 200 response
status_headers(userid, groups, str_2fa) ==
    [h \in {"X-Saml-User", "X-Saml-Groups", "X-Saml-2fa"} |->
        CASE h = "X-Saml-User" -> <<userid>>
          [] h = "X-Saml-Groups" -> join(":", groups)
          [] h = "X-Saml-2fa" -> <<str_2fa>>]

\* status(group): the response and what it logs; it only reads the session
status(sess, r) ==
    LET userid == dict_get(sess, "userid", None)
        groups == dict_get(sess, "groups", <<>>)
        has_2fa == dict_get(sess, "has_2fa", PyFalse)
        str_2fa == str_lower(has_2fa)
    IN IF is_unauthorized(userid, wants_2fa(r), has_2fa)
       THEN [resp |-> Unauthorized(r), log |-> <<>>]
       ELSE IF is_forbidden(r.group, groups)
       THEN [resp |-> Forbidden(r),
             log |-> <<[level |-> "error", what |-> "not a member", a |-> <<userid>>, b |-> <<r.group>>]>>]
       ELSE [resp |-> Response(200,
                        IF wants_json(r)
                        THEN dict_set(status_headers(userid, groups, str_2fa),
                                      "Content-Type", <<"application/json">>)
                        ELSE status_headers(userid, groups, str_2fa),
                        IF wants_json(r)
                        THEN [kind |-> "json", user |-> userid, groups |-> groups,
                              two_factor |-> has_2fa, text |-> ""]
                        ELSE [kind |-> "text", user |-> userid, groups |-> groups,
                              two_factor |-> str_2fa, text |-> "Logged in as"]),
             log |-> <<>>]

\* ------------------------------------------------------------ _saml_args (src/app.py:99-114)

\* POSTBACK_ROUTE[1:]
POSTBACK_ROUTE_1 == <<"l", "o", "g", "i", "n">>

\* federated.SccaIdp(entity_id): an identity provider whose sso_url and
\* x509_cert are the class's own until they are assigned
SccaIdp(entity_id) == [entity_id |-> entity_id, sso_url |-> None, x509_cert |-> None]

\* if 'x-Saml-Idp-Url' in request.headers: args['idp'].sso_url = ...
idp_sso_url(idp, headers) ==
    IF "X-Saml-Idp-Url" \in DOMAIN headers
    THEN [idp EXCEPT !.sso_url = headers["X-Saml-Idp-Url"]] ELSE idp

\* if 'x-Saml-Idp-Cert' in request.headers: args['idp'].x509_cert = ...
idp_x509_cert(idp, headers) ==
    IF "X-Saml-Idp-Cert" \in DOMAIN headers
    THEN [idp EXCEPT !.x509_cert = headers["X-Saml-Idp-Cert"]] ELSE idp

\* the entity_id and acs_url of the arguments: the defaults of lines 102-103,
\* or what the headers X-Saml-Entity-Id and X-Saml-Acs give
saml_args_urls(headers) ==
    [k \in {"entity_id", "acs_url"} |->
        CASE k = "entity_id" ->
                dict_get(headers, "X-Saml-Entity-Id", Before(url_root, Len(url_root)))
          [] k = "acs_url" ->
                urljoin(url_root, dict_get(headers, "X-Saml-Acs", POSTBACK_ROUTE_1))]

\* _saml_args(): entity_id, acs_url and, under the header X-Saml-Idp only, the
\* identity provider with its own sso_url and x509_cert
_saml_args(r) ==
    IF "X-Saml-Idp" \in DOMAIN r.headers
    THEN dict_set(saml_args_urls(r.headers), "idp",
                  idp_x509_cert(idp_sso_url(SccaIdp(r.headers["X-Saml-Idp"]), r.headers),
                                r.headers))
    ELSE saml_args_urls(r.headers)

\* ------------------------------------------------------------ login_redirect (src/app.py:116-153)

\* mutant of return_destination: a path segment, when there is one, wins over rd
return_destination_uri(return_to, args, query_string) ==
    IF "rd" \in DOMAIN args /\ return_to = <<>>
    THEN [return_to |-> urlparse(args["rd"]).path
                        \o (IF urlparse(args["rd"]).query = <<>> THEN <<>>
                            ELSE <<"?">> \o urlparse(args["rd"]).query),
          log |-> <<>>]
    ELSE [return_to |-> <<"/">> \o return_to
                        \o (IF query_string = <<>> THEN <<>> ELSE <<"?">> \o query_string),
          log |-> IF "rd" \in DOMAIN args
                  THEN <<[level |-> "warning", what |-> "return_to in both URI and rd",
                          a |-> return_to, b |-> urlparse(args["rd"]).path]>>
                  ELSE <<>>]

\* mutant of return_destination: the '?' is kept before an empty query
return_destination_bare_query(return_to, args, query_string) ==
    IF "rd" \in DOMAIN args
    THEN [return_to |-> urlparse(args["rd"]).path \o <<"?">> \o urlparse(args["rd"]).query,
          log |-> IF return_to # <<>>
                  THEN <<[level |-> "warning", what |-> "return_to in both URI and rd",
                          a |-> return_to, b |-> urlparse(args["rd"]).path]>>
                  ELSE <<>>]
    ELSE [return_to |-> <<"/">> \o return_to \o <<"?">> \o query_string, log |-> <<>>]

\* The return destination and the warnings of lines 136-149: rd's path and
\* query when the query field rd is present, else '/' + return_to and the raw
\* query string.
return_destination(return_to, args, query_string) ==
    LET has_rd == "rd" \in DOMAIN args
        rd_parts == urlparse(dict_get(args, "rd", <<>>))
        qs0 == IF has_rd THEN <<"?">> \o rd_parts.query ELSE <<"?">> \o query_string
        path == IF has_rd THEN rd_parts.path ELSE <<"/">> \o return_to
        qs == IF qs0 = <<"?">> THEN <<>> ELSE qs0
    IN [return_to |-> path \o qs,
        log |-> IF has_rd /\ return_to # <<>>
                THEN <<[level |-> "warning", what |-> "return_to in both URI and rd",
                        a |-> return_to, b |-> rd_parts.path]>>
                ELSE <<>>]

\* login_redirect(return_to): a redirect to the identity provider that carries
\* the return destination as relay state; it does not touch the session
login_redirect(return_to, r) ==
    LET d == return_destination(return_to, r.args, r.query_string)
        \* request.path.startswith('/2fa/')
        two_factor == Len(r.path) >= 3 /\ r.path[1] = "" /\ r.path[2] = "2fa"
    IN [resp |-> [Response(302, EmptyDict, NoBody) EXCEPT
                    !.redirect = [to |-> "idp", location |-> <<>>,
                                  return_to |-> d.return_to, two_factor |-> two_factor,
                                  args |-> IF two_factor
                                           THEN dict_set(_saml_args(r), "two_factor", PyTrue)
                                           ELSE _saml_args(r)]],
        log |-> d.log]

\* ------------------------------------------------------------ login (src/app.py:156-178)

\* the attribute that holds the user id: the one X-Saml-Idp-Id-Attr names, else uwnetid
userid_attribute(r) == dict_get(r.headers, "X-Saml-Idp-Id-Attr", "uwnetid")

\* session['userid'], session['groups'] and session['has_2fa'] of lines 168-173
session_from(sess, attributes, r) ==
    dict_set(dict_set(dict_set(sess,
        "userid", attributes[userid_attribute(r)]),
        "groups", dict_get(attributes, "groups", <<>>)),
        "has_2fa", dict_get(attributes, "two_factor", None))

\* relay_state and relay_state.startswith('/')
relay_is_path(fields) ==
    /\ "RelayState" \in DOMAIN fields
    /\ fields["RelayState"] # <<>>
    /\ startswith(fields["RelayState"], <<"/">>)

\* login(): the callback endpoint.  The session is cleared first; a GET
\* re-enters login_redirect; a POST whose form uw_saml2.process_response
\* rejects, or whose attributes lack the user id attribute, raises.
login(sess, r) ==
    LET s0 == session_clear(sess)
    IN IF r.method = "GET"
       THEN LET out == login_redirect(<<>>, r)
            IN [session |-> s0, modified |-> TRUE, resp |-> out.resp, log |-> out.log]
       ELSE IF ~r.form.valid \/ userid_attribute(r) \notin DOMAIN r.form.attributes
       THEN [session |-> s0, modified |-> TRUE, resp |-> InternalServerError, log |-> <<>>]
       ELSE LET s1 == session_from(s0, r.form.attributes, r)
            IN IF relay_is_path(r.form.fields)
               THEN [session |-> s1, modified |-> TRUE,
                     resp |-> [Response(302, EmptyDict, NoBody) EXCEPT
                                 !.redirect = [to |-> "self",
                                               location |-> urljoin(url_root, r.form.fields["RelayState"]),
                                               return_to |-> <<>>, two_factor |-> FALSE,
                                               args |-> EmptyDict]],
                     log |-> <<>>]
               ELSE LET out == status(s1, [r EXCEPT !.group = None])
                    IN [session |-> s1, modified |-> TRUE, resp |-> out.resp, log |-> out.log]

\* ------------------------------------------------------------ logout, healthz (src/app.py:181-194)

\* mutant of logout: the session is left as it is
logout_kept(sess, r) ==
    [session |-> sess, modified |-> FALSE,
     resp |-> Response(200, EmptyDict, [NoBody EXCEPT !.kind = "text", !.text = "Logged out"]),
     log |-> <<>>]

\* logout(): the session is cleared
logout(sess, r) ==
    [session |-> session_clear(sess), modified |-> TRUE,
     resp |-> Response(200, EmptyDict, [NoBody EXCEPT !.kind = "text", !.text = "Logged out"]),
     log |-> <<>>]

\* mutant of healthz: the landing page clears the session
healthz_cleared(sess, r) ==
    [session |-> EmptyDict, modified |-> TRUE,
     resp |-> Response(200, EmptyDict, [NoBody EXCEPT !.kind = "html", !.text = "links"]),
     log |-> <<>>]

\* healthz(): the landing page
healthz(sess, r) ==
    [session |-> sess, modified |-> FALSE,
     resp |-> Response(200, EmptyDict, [NoBody EXCEPT !.kind = "html", !.text = "links"]),
     log |-> <<>>]

\* the view function of each route
dispatch(sess, r) ==
    CASE r.kind = "status" ->
            LET out == status(sess, r)
            IN [session |-> sess, modified |-> FALSE, resp |-> out.resp, log |-> out.log]
      [] r.kind = "login_redirect" ->
            LET out == login_redirect(r.return_to, r)
            IN [session |-> sess, modified |-> FALSE, resp |-> out.resp, log |-> out.log]
      [] r.kind = "login" -> login(sess, r)
      [] r.kind = "logout" -> logout(sess, r)
      [] r.kind = "healthz" -> healthz(sess, r)

\* ------------------------------------------------------------ the requests of the model

\* the five status routes (src/app.py:58-62), with request.path split at '/'
StatusRequests(groups, jsons) ==
    {[Request("status", "GET", "/status", <<"", "status">>) EXCEPT !.json = j]
        : j \in jsons}
    \cup {[Request("status", "GET", "/status/2fa", <<"", "status", "2fa">>) EXCEPT !.json = j]
        : j \in jsons}
    \cup {[Request("status", "GET", "/status/group/<group>", <<"", "status", "group", g>>)
            EXCEPT !.group = g, !.json = j] : g \in groups, j \in jsons}
    \cup {[Request("status", "GET", "/status/group/<group>/2fa", <<"", "status", "group", g, "2fa">>)
            EXCEPT !.group = g, !.json = j] : g \in groups, j \in jsons}
    \cup {[Request("status", "GET", "/status/2fa/group/<group>", <<"", "status", "2fa", "group", g>>)
            EXCEPT !.group = g, !.json = j] : g \in groups, j \in jsons}

\* request.args: the query field rd, when the query string has one
Args(rds) == {EmptyDict} \cup {dict_set(EmptyDict, "rd", v) : v \in rds}

\* the raw query string: the field rd when there is one, else one of qs
QueryString(args, q) ==
    IF "rd" \in DOMAIN args THEN <<"rd=">> \o args["rd"] ELSE q

\* the four login routes (src/app.py:116-119); request.path is split at its
\* first two '/' and holds return_to whole
LoginRedirectRequests(paths, rds, qs) ==
    {[Request("login_redirect", "GET",
              CASE entry = "login" /\ p = <<>> -> "/login/"
                [] entry = "login" /\ p # <<>> -> "/login/<path:return_to>"
                [] entry = "2fa" /\ p = <<>> -> "/2fa/"
                [] entry = "2fa" /\ p # <<>> -> "/2fa/<path:return_to>",
              <<"", entry, p>>)
        EXCEPT !.return_to = p, !.args = a, !.query_string = QueryString(a, q)]
        : entry \in {"login", "2fa"}, p \in paths, a \in Args(rds), q \in qs}

\* GET /login
LoginGetRequests(rds, qs) ==
    {[Request("login", "GET", "/login", <<"", "login">>)
        EXCEPT !.args = a, !.query_string = QueryString(a, q)]
        : a \in Args(rds), q \in qs}

\* a key that may be missing: nothing, or one of vals
Opt(vals) == {[has |-> FALSE]} \cup {[has |-> TRUE, v |-> x] : x \in vals}
put(d, k, o) == IF o.has THEN dict_set(d, k, o.v) ELSE d

\* the attribute maps uw_saml2.process_response may return: each attribute
\* present with one of the given values, or missing
AttributeMaps(uwnetids, eppns, groups, two_factors) ==
    {put(put(put(put(EmptyDict, "uwnetid", u), "eppn", e), "groups", g), "two_factor", t)
        : u \in Opt(uwnetids), e \in Opt(eppns), g \in Opt(groups), t \in Opt(two_factors)}

\* the posted forms: one the library rejects, or one it accepts and maps to
\* an attribute map; each with or without a RelayState field
Forms(maps, relays) ==
    {[valid |-> TRUE, attributes |-> m, fields |-> put(EmptyDict, "RelayState", rs)]
        : m \in maps, rs \in Opt(relays)}
    \cup {[valid |-> FALSE, attributes |-> EmptyDict, fields |-> put(EmptyDict, "RelayState", rs)]
        : rs \in Opt(relays)}

\* POST /login, with or without the header X-Saml-Idp-Id-Attr
LoginPostRequests(maps, relays, jsons) ==
    {[Request("login", "POST", "/login", <<"", "login">>)
        EXCEPT !.form = f, !.json = j, !.headers = put(EmptyDict, "X-Saml-Idp-Id-Attr", h)]
        : f \in Forms(maps, relays), j \in jsons, h \in Opt({"eppn"})}

\* ------------------------------------------------------------ the state machine

\* the inputs of Spec
SpecStatusRequests == StatusRequests({"staff", "admin"}, {FALSE})
SpecLoginRedirectRequests ==
    LoginRedirectRequests({<<>>, <<"a">>}, {<<"/", "a", "?", "a">>}, {<<>>})
SpecLoginGetRequests == LoginGetRequests({<<"/", "a", "?", "a">>}, {<<>>})
SpecAttributeMaps ==
    {m \in AttributeMaps({"", "abc"}, {"bob"}, {<<"staff">>}, {PyTrue})
        : "groups" \in DOMAIN m <=> "two_factor" \in DOMAIN m}
SpecLoginPostRequests == LoginPostRequests(SpecAttributeMaps, {<<"/", "a">>}, {FALSE})

Init ==
    /\ now = 0
    /\ cookie = NoCookie
    /\ req = NoRequest
    /\ opened = EmptyDict
    /\ session = EmptyDict
    /\ resp = NoResponse
    /\ log = <<>>
    /\ kept = NoCookie

\* what the handler's result out and save_session leave behind
Saved(sess, out) ==
    [cookie |-> save_session(cookie, out.session, out.modified, now),
     opened |-> sess, session |-> out.session, resp |-> out.resp, log |-> out.log]

\* One request of the client: the session is opened from the cookie the
\* client presents, the view function runs, and the session is saved into the
\* cookie.
Served(sess, r) == Saved(sess, dispatch(sess, r))
Handled(r) == Served(open_session(cookie, now), r)

Status ==
    \E r \in SpecStatusRequests :
        \E h \in {Handled(r)} :
            /\ cookie' = h.cookie
            /\ req' = r
            /\ opened' = h.opened
            /\ session' = h.session
            /\ resp' = h.resp
            /\ log' = h.log
            /\ UNCHANGED <<now, kept>>

LoginRedirect ==
    \E r \in SpecLoginRedirectRequests :
        \E h \in {Handled(r)} :
            /\ cookie' = h.cookie
            /\ req' = r
            /\ opened' = h.opened
            /\ session' = h.session
            /\ resp' = h.resp
            /\ log' = h.log
            /\ UNCHANGED <<now, kept>>

LoginGet ==
    \E r \in SpecLoginGetRequests :
        \E h \in {Handled(r)} :
            /\ cookie' = h.cookie
            /\ req' = r
            /\ opened' = h.opened
            /\ session' = h.session
            /\ resp' = h.resp
            /\ log' = h.log
            /\ UNCHANGED <<now, kept>>

LoginPost ==
    \E r \in SpecLoginPostRequests :
        \E h \in {Handled(r)} :
            /\ cookie' = h.cookie
            /\ req' = r
            /\ opened' = h.opened
            /\ session' = h.session
            /\ resp' = h.resp
            /\ log' = h.log
            /\ UNCHANGED <<now, kept>>

LogoutRequest == Request("logout", "GET", "/logout", <<"", "logout">>)
HealthzRequest == Request("healthz", "GET", "/", <<"", "">>)

Logout ==
    \E h \in {Handled(LogoutRequest)} :
        /\ cookie' = h.cookie
        /\ req' = LogoutRequest
        /\ opened' = h.opened
        /\ session' = h.session
        /\ resp' = h.resp
        /\ log' = h.log
        /\ UNCHANGED <<now, kept>>

Healthz ==
    \E h \in {Handled(HealthzRequest)} :
        /\ cookie' = h.cookie
        /\ req' = HealthzRequest
        /\ opened' = h.opened
        /\ session' = h.session
        /\ resp' = h.resp
        /\ log' = h.log
        /\ UNCHANGED <<now, kept>>

\* time passes
Tick ==
    /\ now < MaxTicks * TickHours
    /\ now' = now + TickHours
    /\ UNCHANGED <<cookie, req, opened, session, resp, log, kept>>

Next ==
    \/ Status
    \/ LoginRedirect
    \/ LoginGet
    \/ LoginPost
    \/ Logout
    \/ Healthz
    \/ Tick

Spec == Init /\ [][Next]_vars

\* ------------------------------------------------------------ the status decision on its own

\* the inputs of SpecStatus: every session a callback can leave in the cookie,
\* and every status route with every group name
WideLoginPostRequests ==
    LoginPostRequests(AttributeMaps({"", "abc"}, {"bob"},
                                    {<<>>, <<"staff">>, <<"staff", "2fa">>}, {PyTrue, PyFalse}),
                      {<<"/", "a">>}, {FALSE})
WideStatusRequests == StatusRequests({"staff", "admin", "2fa"}, BOOLEAN)
StatusCookies ==
    {save_session(NoCookie, login(EmptyDict, r).session, TRUE, 0) : r \in WideLoginPostRequests}

InitStatus ==
    /\ now = 0
    /\ cookie \in {NoCookie} \cup StatusCookies
    /\ req \in WideStatusRequests
    /\ opened = EmptyDict
    /\ session = EmptyDict
    /\ resp = NoResponse
    /\ log = <<>>
    /\ kept = NoCookie

\* the request in flight is handled
Decide ==
    /\ resp = NoResponse
    /\ req.kind = "status"
    /\ \E h \in {Handled(req)} :
        /\ cookie' = h.cookie
        /\ opened' = h.opened
        /\ session' = h.session
        /\ resp' = h.resp
        /\ log' = h.log
        /\ UNCHANGED <<now, req, kept>>

NextStatus == Decide

SpecStatus == InitStatus /\ [][NextStatus]_vars

\* ------------------------------------------------------------ the return destination on its own

\* the strings of at most n characters of alphabet
Strs(alphabet, n) == UNION {[1..k -> alphabet] : k \in 0..n}

\* the inputs of SpecRedirect: a path segment (empty, or one that begins with
\* no '/'), and either an rd field or a raw query string without one
WideReturnPaths == {p \in Strs({"a", "/"}, MaxStrLen) : p = <<>> \/ p[1] # "/"}
WideRdValues == Strs({"/", "a", "?", ":", "#", ";"}, MaxStrLen)
WideQueryStrings == Strs({"a", "=", "?"}, MaxStrLen)
WideLoginRedirectRequests ==
    LoginRedirectRequests(WideReturnPaths, WideRdValues, {<<>>})
    \cup LoginRedirectRequests(WideReturnPaths, {}, WideQueryStrings)

InitRedirect ==
    /\ now = 0
    /\ cookie = NoCookie
    /\ req \in WideLoginRedirectRequests
    /\ opened = EmptyDict
    /\ session = EmptyDict
    /\ resp = NoResponse
    /\ log = <<>>
    /\ kept = NoCookie

\* the request in flight is handled
Build ==
    /\ resp = NoResponse
    /\ req.kind = "login_redirect"
    /\ \E h \in {Handled(req)} :
        /\ cookie' = h.cookie
        /\ opened' = h.opened
        /\ session' = h.session
        /\ resp' = h.resp
        /\ log' = h.log
        /\ UNCHANGED <<now, req, kept>>

NextRedirect == Build

SpecRedirect == InitRedirect /\ [][NextRedirect]_vars

\* ------------------------------------------------------------ the callback on its own

\* the inputs of SpecCallback: a callback POST with every relay state of at
\* most MaxStrLen characters, or none
WideRelayStates == Strs({"/", "a", ":", "?"}, MaxStrLen)
WideCallbackRequests ==
    LoginPostRequests(AttributeMaps({"", "abc"}, {}, {<<"staff">>}, {PyTrue}),
                      WideRelayStates, {FALSE})

InitCallback ==
    /\ now = 0
    /\ cookie = NoCookie
    /\ req \in WideCallbackRequests
    /\ opened = EmptyDict
    /\ session = EmptyDict
    /\ resp = NoResponse
    /\ log = <<>>
    /\ kept = NoCookie

\* the request in flight is handled
Callback ==
    /\ resp = NoResponse
    /\ req.kind = "login"
    /\ \E h \in {Handled(req)} :
        /\ cookie' = h.cookie
        /\ opened' = h.opened
        /\ session' = h.session
        /\ resp' = h.resp
        /\ log' = h.log
        /\ UNCHANGED <<now, req, kept>>

NextCallback == Callback

SpecCallback == InitCallback /\ [][NextCallback]_vars

\* ------------------------------------------------------------ the arguments on their own

\* the headers _saml_args reads: each present with one of the given values, or
\* missing
SamlHeaders(entity_ids, acss, idps, urls, certs) ==
    {put(put(put(put(put(EmptyDict, "X-Saml-Entity-Id", e), "X-Saml-Acs", a),
                 "X-Saml-Idp", i), "X-Saml-Idp-Url", u), "X-Saml-Idp-Cert", c)
        : e \in Opt(entity_ids), a \in Opt(acss), i \in Opt(idps),
          u \in Opt(urls), c \in Opt(certs)}

\* the inputs of SpecArgs: GET /login/ and GET /2fa/ under every subset of the
\* headers, with every X-Saml-Acs value of at most MaxStrLen characters
WideAcsValues == Strs({"/", "a", ":"}, MaxStrLen)
WideSamlHeaders == SamlHeaders({<<"a">>}, WideAcsValues, {"i"}, {"u"}, {"c"})
WideArgsRequests ==
    {[r EXCEPT !.headers = h]
        : r \in LoginRedirectRequests({<<>>}, {}, {<<>>}), h \in WideSamlHeaders}

InitArgs ==
    /\ now = 0
    /\ cookie = NoCookie
    /\ req \in WideArgsRequests
    /\ opened = EmptyDict
    /\ session = EmptyDict
    /\ resp = NoResponse
    /\ log = <<>>
    /\ kept = NoCookie

\* the request in flight is handled
Resolve ==
    /\ resp = NoResponse
    /\ req.kind = "login_redirect"
    /\ \E h \in {Handled(req)} :
        /\ cookie' = h.cookie
        /\ opened' = h.opened
        /\ session' = h.session
        /\ resp' = h.resp
        /\ log' = h.log
        /\ UNCHANGED <<now, req, kept>>

NextArgs == Resolve

SpecArgs == InitArgs /\ [][NextArgs]_vars

\* ------------------------------------------------------------ a token that is presented again

\* A copy of the client's token is kept: by the client, or by a request that
\* has been sent with it and is still in flight.
Keep ==
    /\ cookie.present
    /\ kept # cookie
    /\ kept' = cookie
    /\ UNCHANGED <<now, cookie, req, opened, session, resp, log>>

\* A status request that presents the kept copy is handled: its session is
\* opened from that token, and what it saves goes to the client's cookie.
Replay ==
    /\ kept.present
    /\ \E r \in SpecStatusRequests :
        \E h \in {Served(open_session(kept, now), r)} :
            /\ cookie' = h.cookie
            /\ req' = r
            /\ opened' = h.opened
            /\ session' = h.session
            /\ resp' = h.resp
            /\ log' = h.log
            /\ UNCHANGED <<now, kept>>

NextReplay ==
    \/ LoginPost
    \/ Keep
    \/ Logout
    \/ Replay
    \/ Tick

SpecReplay == Init /\ [][NextReplay]_vars

\* ------------------------------------------------------------ the claims

\* the request in flight has been answered
Answered == resp # NoResponse
StatusAnswered == req.kind = "status" /\ Answered

UserId(s) == dict_get(s, "userid", None)
Groups(s) == dict_get(s, "groups", <<>>)
\* the session holds a user id
Present(s) == Truthy(UserId(s))
\* the session holds a second factor
HasSecondFactor(s) == dict_get(s, "has_2fa", PyFalse) = PyTrue
\* the route variant asks for the second factor
RequiresSecondFactor(r) ==
    r.route \in {"/status/2fa", "/status/group/<group>/2fa", "/status/2fa/group/<group>"}

\* C1: on every status route and for every group name, a request whose
\* session holds no user id is answered 401, never 200 and never 403.
C1_AbsentIsUnauthenticated ==
    (StatusAnswered /\ ~Present(session)) => resp.code = 401

C1_Witness ==
    /\ StatusAnswered
    /\ session = EmptyDict
    /\ req.route = "/status/2fa/group/<group>"
    /\ resp.code = 401

\* C2: for a session with a user id and any required group, a status request
\* on a route that requires the second factor is answered 401 exactly when the
\* session holds no second factor.
C2_SecondFactorDecides ==
    (StatusAnswered /\ Present(session) /\ RequiresSecondFactor(req))
        => (resp.code = 401 <=> ~HasSecondFactor(session))

C2_Witness ==
    /\ StatusAnswered
    /\ Present(session)
    /\ req.route = "/status/group/<group>/2fa"
    /\ req.group \in Range(Groups(session))
    /\ ~HasSecondFactor(session)
    /\ resp.code = 401

\* C3, as claimed: for a session with a user id and a required group g, the
\* answer is 403 exactly when g is not among the session's groups, whatever
\* the second-factor requirement.  Stated for the group names other than
\* '2fa', whose path segment the code also reads as the second-factor variant.
C3_ForbiddenIffNotMember ==
    (StatusAnswered /\ Present(session) /\ req.group \notin {None, "2fa"})
        => (resp.code = 403 <=> req.group \notin Range(Groups(session)))

\* C3, amended: for a session with a user id and a required group g, the
\* answer is 403 exactly when g is not among the session's groups and the
\* request is not refused 401 by the rule before: its path asks for the
\* second factor and the session holds none.
C3_ForbiddenIffNotMemberAndAuthenticated ==
    (StatusAnswered /\ Present(session) /\ req.group # None)
        => (resp.code = 403 <=>
                /\ req.group \notin Range(Groups(session))
                /\ ~("2fa" \in Range(req.path) /\ ~HasSecondFactor(session)))

C3_Witness ==
    /\ StatusAnswered
    /\ Present(session)
    /\ req.group = "admin"
    /\ Groups(session) = <<"staff">>
    /\ RequiresSecondFactor(req)
    /\ resp.code = 403

\* the callback POST whose form the protocol library accepts
AcceptedPost(r) == r.kind = "login" /\ r.method = "POST" /\ r.form.valid
\* the one that also holds the attribute the user id is taken from
SuccessfulPost(r) == AcceptedPost(r) /\ userid_attribute(r) \in DOMAIN r.form.attributes
\* the session the attribute map of a successful POST stands for
AssertedSession(r) ==
    [userid |-> r.form.attributes[userid_attribute(r)],
     groups |-> IF "groups" \in DOMAIN r.form.attributes THEN r.form.attributes["groups"] ELSE <<>>,
     has_2fa |-> IF "two_factor" \in DOMAIN r.form.attributes
                 THEN r.form.attributes["two_factor"] ELSE None]

\* C4: a GET /logout leaves neither cookie nor session (no user id, groups or
\* second-factor flag), and a status request that follows it, on any route, is
\* answered 401.
C4_LogoutThenStatusIs401 ==
    [][/\ req'.kind = "logout" => (cookie' = NoCookie /\ session' = EmptyDict /\ Session' = EmptyDict)
       /\ (req.kind = "logout" /\ req'.kind = "status") => (opened' = EmptyDict /\ resp'.code = 401)]_vars

C4_Witness ==
    /\ req.kind = "logout"
    /\ Present(opened)
    /\ Groups(opened) # <<>>
    /\ HasSecondFactor(opened)
    /\ cookie = NoCookie
    /\ ENABLED (Status /\ req'.route = "/status" /\ resp'.code = 401)

\* the callback POST of the round trip: accepted, and mapped to user id abc,
\* groups [staff] and a second factor
AbcStaffPost(r) ==
    /\ SuccessfulPost(r)
    /\ AssertedSession(r) = [userid |-> "abc", groups |-> <<"staff">>, has_2fa |-> PyTrue]
\* GET /status/2fa/group/staff follows
ThenStatus2faGroupStaff ==
    /\ AbcStaffPost(req)
    /\ cookie.present
    /\ unexpired(cookie.ts, now)
    /\ req'.kind = "status"
    /\ req'.route = "/status/2fa/group/<group>"
    /\ req'.group = "staff"

C6_AbsentOrFullyPopulated ==
    \/ Session = EmptyDict
    \/ DOMAIN Session = {"userid", "groups", "has_2fa"} /\ Truthy(Session["userid"])

\* C7: a step puts a session into the cookie, or makes the client's session
\* another non-empty one, only when it handles a callback POST the protocol
\* library accepted; no other request establishes a session.
C7_OnlyAcceptedPostEstablishes ==
    [][/\ (cookie'.present /\ cookie' # cookie) => (AcceptedPost(req') /\ now' = now)
       /\ (Session' # EmptyDict /\ Session' # Session) => (AcceptedPost(req') /\ now' = now)
       /\ (now' = now /\ ~AcceptedPost(req')) => (cookie' = cookie \/ ~cookie'.present)]_vars

C7_Witness ==
    /\ AcceptedPost(req)
    /\ opened = EmptyDict
    /\ cookie.present
    /\ Present(Session)

\* C8: after a callback POST that succeeds, the session and the cookie hold
\* exactly what the new attribute map asserts; after any other invocation of
\* the callback endpoint (a GET, a rejected POST) there is no session and no
\* cookie.
C8_CallbackDiscardsSession ==
    req.kind = "login" =>
        IF SuccessfulPost(req)
        THEN session = AssertedSession(req) /\ cookie.present /\ cookie.data = AssertedSession(req)
        ELSE session = EmptyDict /\ cookie = NoCookie

C8_Witness ==
    /\ SuccessfulPost(req)
    /\ Present(opened)
    /\ Groups(opened) # <<>>
    /\ HasSecondFactor(opened)
    /\ UserId(session) \notin {UserId(opened), ""}
    /\ Groups(session) = <<>>
    /\ ~HasSecondFactor(session)

\* C9: a status request that presents a token signed more than the 12 hours
\* of PERMANENT_SESSION_LIFETIME ago sees no session and is answered 401, and
\* no request gives the cookie a later signing time except a callback POST
\* the protocol library accepted.
C9_ExpiryEnforced ==
    [][/\ (now' = now /\ req'.kind = "status" /\ cookie.present /\ now - cookie.ts > 12)
            => (opened' = EmptyDict /\ resp'.code = 401)
       /\ (cookie'.present /\ ~(AcceptedPost(req') /\ now' = now))
            => (cookie.present /\ cookie'.ts = cookie.ts)]_vars

C9_Witness ==
    /\ req.kind = "status"
    /\ req.route = "/status"
    /\ cookie.present
    /\ Present(cookie.data)
    /\ now - cookie.ts > 12
    /\ opened = EmptyDict
    /\ resp.code = 401

\* the return destination of an rd field alone: its path, and '?' and its
\* query when it has one
RdPath(rd) == urlparse(rd).path
RdQuery(rd) == urlparse(rd).query
RdAlone(rd) == RdPath(rd) \o (IF RdQuery(rd) # <<>> THEN <<"?">> \o RdQuery(rd) ELSE <<>>)

BothConventions ==
    req.kind = "login_redirect" /\ Answered /\ "rd" \in DOMAIN req.args /\ req.return_to # <<>>

\* C10: a login redirect with both a path segment and an rd field carries, as
\* relay state, the return destination of rd alone (the one the same request
\* without the path segment gets), and logs the conflict exactly once.
C10_RdWinsAndConflictLoggedOnce ==
    BothConventions =>
        /\ resp.code = 302
        /\ resp.redirect.to = "idp"
        /\ resp.redirect.return_to = RdAlone(req.args["rd"])
        /\ resp.redirect.return_to = return_destination(<<>>, req.args, req.query_string).return_to
        /\ Len(log) = 1
        /\ log[1].level = "warning"

C10_Witness ==
    /\ BothConventions
    /\ req.return_to = <<"a", "/", "a">>
    /\ req.args["rd"] = <<"/", "a", "?">>
    /\ resp.redirect.return_to = <<"/", "a">>
    /\ Len(log) = 1

LoginRedirectAnswered == req.kind = "login_redirect" /\ Answered

\* C11: for every login redirect, by path segment or by rd field, the return
\* destination handed to the protocol library as relay state begins with '/'.
C11_ReturnDestinationBeginsWithSlash ==
    LoginRedirectAnswered => startswith(resp.redirect.return_to, <<"/">>)

\* a successful callback POST has been answered
CallbackSucceeded == SuccessfulPost(req) /\ Answered
\* the form carries a relay state that is an absolute path: it begins with
\* one '/', not with the '//' of a protocol-relative URL
RelayIsAbsolutePath(r) ==
    /\ "RelayState" \in DOMAIN r.form.fields
    /\ startswith(r.form.fields["RelayState"], <<"/">>)
    /\ ~startswith(r.form.fields["RelayState"], <<"/", "/">>)
\* a URL on this service's own origin: the scheme and the host of url_root
OnOwnOrigin(url) ==
    /\ urlparse(url).scheme = urlparse(url_root).scheme
    /\ urlparse(url).netloc = urlparse(url_root).netloc

\* C12: after a successful callback POST the response is a redirect, to a
\* target on this service's own origin, when the relay state is an absolute
\* path, and for every other relay state (none, empty, relative,
\* protocol-relative, absolute URL) it is the status payload for the new
\* session.
C12_RedirectOnlyToOwnOrigin ==
    CallbackSucceeded =>
        IF RelayIsAbsolutePath(req)
        THEN /\ resp.code = 302
             /\ resp.redirect.to = "self"
             /\ OnOwnOrigin(resp.redirect.location)
        ELSE resp = status(session, req).resp

\* the arguments login_redirect handed to the protocol library
LibraryArgs == resp.redirect.args

\* C13: whatever the header X-Saml-Acs holds, a login redirect either hands
\* the protocol library a callback URL on this service's own origin, or is
\* rejected with a client error.
C13_AcsOnOwnOriginOrRejected ==
    (LoginRedirectAnswered /\ "X-Saml-Acs" \in DOMAIN req.headers) =>
        IF resp.code = 302
        THEN OnOwnOrigin(LibraryArgs["acs_url"])
        ELSE resp.code \in 400..499

\* the sso_url and the x509_cert the protocol library is to use: None when it
\* is left to its own
SsoUrl(args) == IF "idp" \in DOMAIN args THEN args["idp"].sso_url ELSE None
X509Cert(args) == IF "idp" \in DOMAIN args THEN args["idp"].x509_cert ELSE None

\* C14: under every subset of the headers, each of the four fields takes its
\* own header's value when that header is present (the callback URL resolved
\* against url_root) and keeps its default when it is not, whichever other
\* headers are present.
C14_OverridesIndependent ==
    LoginRedirectAnswered =>
        /\ LibraryArgs["entity_id"] =
                IF "X-Saml-Entity-Id" \in DOMAIN req.headers
                THEN req.headers["X-Saml-Entity-Id"] ELSE <<"h", ":", "/", "/", "e">>
        /\ LibraryArgs["acs_url"] =
                IF "X-Saml-Acs" \in DOMAIN req.headers
                THEN urljoin(url_root, req.headers["X-Saml-Acs"])
                ELSE <<"h", ":", "/", "/", "e", "/", "l", "o", "g", "i", "n">>
        /\ SsoUrl(LibraryArgs) =
                IF "X-Saml-Idp-Url" \in DOMAIN req.headers
                THEN req.headers["X-Saml-Idp-Url"] ELSE None
        /\ X509Cert(LibraryArgs) =
                IF "X-Saml-Idp-Cert" \in DOMAIN req.headers
                THEN req.headers["X-Saml-Idp-Cert"] ELSE None

\* C15: on every 200 status response the second-factor header is "true" or
\* "false" and, in a JSON body, two_factor is a boolean; each is true exactly
\* when the session holds an asserted second factor.
C15_SecondFactorIsBoolean ==
    (StatusAnswered /\ resp.code = 200) =>
        /\ header(resp, "X-Saml-2fa") \in {<<"true">>, <<"false">>}
        /\ header(resp, "X-Saml-2fa") = <<"true">> <=> HasSecondFactor(session)
        /\ resp.body.kind = "json" =>
                /\ resp.body.two_factor \in {PyTrue, PyFalse}
                /\ resp.body.two_factor = PyTrue <=> HasSecondFactor(session)

\* a GET of the callback endpoint
CallbackGet(r) == r.kind = "login" /\ r.method = "GET"
\* GET /login/ with the same query string and headers
AsLoginSlash(r) ==
    [r EXCEPT !.kind = "login_redirect", !.route = "/login/", !.path = <<"", "login", <<>>>>]
\* the same callback GET is handled again
CallbackGetAgain == CallbackGet(req) /\ req' = req /\ now' = now
NothingFurther == cookie' = cookie /\ session' = session /\ resp' = resp /\ log' = log

\* C16, as claimed: a GET of the callback endpoint gives the redirect, the log
\* and the session state that GET /login/ with the same query string and
\* headers gives for the same prior session, and repeating it changes nothing
\* further.
C16_CallbackGetIsLoginSlash ==
    [][/\ (CallbackGet(req') /\ now' = now) =>
            /\ resp' = Handled(AsLoginSlash(req')).resp
            /\ log' = Handled(AsLoginSlash(req')).log
            /\ session' = Handled(AsLoginSlash(req')).session
            /\ cookie' = Handled(AsLoginSlash(req')).cookie
       /\ CallbackGetAgain => NothingFurther]_vars

\* C16, amended: a GET of the callback endpoint gives the redirect and the
\* log that GET /login/ with the same query string and headers gives, but
\* where GET /login/ leaves the prior session as it is, the callback GET
\* leaves no session and no cookie; repeating it changes nothing further.
C16_CallbackGetIsLoginSlashCleared ==
    [][/\ (CallbackGet(req') /\ now' = now) =>
            /\ resp' = Handled(AsLoginSlash(req')).resp
            /\ log' = Handled(AsLoginSlash(req')).log
            /\ Handled(AsLoginSlash(req')).cookie = cookie
            /\ session' = EmptyDict
            /\ cookie' = NoCookie
       /\ CallbackGetAgain => NothingFurther]_vars

C16_Witness ==
    /\ CallbackGet(req)
    /\ "rd" \in DOMAIN req.args
    /\ Present(opened)
    /\ session = EmptyDict
    /\ cookie = NoCookie
    /\ resp.code = 302
    /\ resp.redirect.return_to = <<"/", "a", "?", "a">>

\* a login redirect without an rd field has been answered
WithoutRd == LoginRedirectAnswered /\ "rd" \notin DOMAIN req.args

\* C17: without an rd field, the return destination is '/', then the route's
\* path segment, then '?' and the raw query string when that is not empty.
C17_PathSegmentAndRawQuery ==
    WithoutRd =>
        /\ resp.code = 302
        /\ resp.redirect.to = "idp"
        /\ resp.redirect.return_to =
                IF req.query_string = <<>>
                THEN <<"/">> \o req.return_to
                ELSE <<"/">> \o req.return_to \o <<"?">> \o req.query_string

C17_Witness ==
    /\ WithoutRd
    /\ req.route = "/login/<path:return_to>"
    /\ req.return_to = <<"a", "/", "a">>
    /\ req.query_string = <<"a", "=", "a">>
    /\ resp.redirect.return_to = <<"/", "a", "/", "a", "?", "a", "=", "a">>

\* C18: on the route /status/group/<g>, which does not ask for the second
\* factor, a session with a user id whose groups hold g is answered 200,
\* with or without a second factor and whatever g is called.
C18_GroupRouteIgnoresSecondFactor ==
    (/\ StatusAnswered
     /\ req.route = "/status/group/<group>"
     /\ Present(session)
     /\ req.group \in Range(Groups(session)))
        => resp.code = 200

\* C19: once a GET /logout has been processed, the status request handled
\* next is not answered 200, even when it presents a copy of a token that was
\* issued before the logout and has not expired.
C19_NoStatusAllowedAfterLogout ==
    [][(req.kind = "logout" /\ req'.kind = "status") => resp'.code # 200]_vars

\* a request for a status check, a login redirect or the landing page
ReadOnlyRequest(r) == r.kind \in {"status", "login_redirect", "healthz"}

====
